---- MODULE Spec2Model ----
(***************************************************************************)
(* Model of the Excel governance add-in's background script               *)
(* (excel_addin/src/commands/commands.js): tracked-range matching, the    *)
(* create-trace path, the offline trace queue and its flush, together     *)
(* with the upsert-model / load-model service the script talks to.        *)
(*                                                                         *)
(* Strings the code inspects character by character (cell and range       *)
(* addresses) are sequences of one-character strings, so that             *)
(* String.prototype.includes is a real substring test.                    *)
(***************************************************************************)
EXTENDS Integers, Sequences, FiniteSets, TLC

VARIABLES
    monitoringActive,   \* commands.js:13
    handlers,           \* worksheets.onChanged handlers added so far
    starts,             \* calls of startLiveMonitoring so far
    modelConfig,        \* commands.js:14  (NoModel stands for null)
    traceQueue,         \* commands.js:15
    isOnline,           \* commands.js:16
    creating,           \* create-model-trace requests awaiting their response
    flushing,           \* create-model-trace-batch requests awaiting their response
    timers,             \* pending setTimeout(flushTraceQueue, 30000) callbacks
    service,            \* the environment: what a fetch completing now yields
    nextId,             \* number of worksheet change events delivered so far
    delivered,          \* ids of the traces the service has stored
    enqueued,           \* ids ever passed to queueTraceLocally
    evicted,            \* records removed by traceQueue.shift(), with the length before the push
    last,               \* the handler that ran last, with its inputs and outcome
    streak,             \* ids pushed onto the queue, in push order, since it was last empty; clean while no flush put records back
    updating,           \* upsert-model requests of updateModelAddRange awaiting their response
    added,              \* tracked ranges whose updateModelAddRange returned the updated model
    loads,              \* initializeMonitoring runs awaiting their load-model response
    overdue,            \* ids of the create-model-trace requests still pending 10 s after they were sent
    now,                \* the producer's clock: what new Date() reads
    sentAt,             \* the timestamp field of each create-model-trace-batch request in flight
    currentModel,       \* taskpane.ts: the model the taskpane holds
    trackedRanges,      \* taskpane.ts: the list the taskpane's form edits
    changeHandlers,     \* taskpane.ts: sheet name -> the handler the Map holds for it
    onChanged,          \* Excel: the handlers registered on the worksheets' onChanged events
    modelIdProp,        \* the workbook's custom property ModelId, if it has one
    setups,             \* runs of setupChangeTracking so far
    shown,              \* the message showStatus displayed last
    traced,             \* the last worksheet change with the create-trace calls it produced
    workbook_model_db,  \* service side: model_id -> stored model (Null when absent)
    returned,           \* service side: versions returned by upsert-model, per model_id, in call order
    reply,              \* service side: the response to the last request
    request,            \* service side: the last request received
    upserting,          \* service side: the upsert-model calls being handled, each with what it has read
    lock,               \* service side: model_id -> whether an upsert holds the model's lock
    workbook_trace,     \* service side: the stored traces, in insertion (trace_id) order
    payload,            \* service side: the trace fields of the last create-trace request
    m_config,           \* matcher harness: the modelConfig findTrackedRange reads
    m_address,          \* matcher harness: the changed address
    m_result,           \* matcher harness: what findTrackedRange returned
    m_pc                \* matcher harness: "call" before, "done" after

producerVars == <<monitoringActive, handlers, starts, modelConfig, traceQueue, isOnline, creating,
                  flushing, timers, service, nextId, delivered, enqueued, evicted, last,
                  streak>>
serverVars == <<workbook_model_db, returned, reply, request>>
matcherVars == <<m_config, m_address, m_result, m_pc>>
clockVars == <<overdue>>
lockVars == <<upserting, lock>>
traceVars == <<workbook_trace, payload>>
editVars == <<updating, added>>
loadVars == <<loads>>
timeVars == <<now, sentAt>>
paneVars == <<currentModel, trackedRanges, changeHandlers, onChanged, modelIdProp, setups, shown,
              traced>>
vars == <<producerVars, serverVars, matcherVars, clockVars, lockVars, traceVars, editVars, loadVars, timeVars, paneVars>>

----------------------------------------------------------------------------
(* Bounds *)

MaxChanges == 4      \* worksheet change events delivered in one run
MaxInFlight == 2     \* create-model-trace requests outstanding at once
MaxUpserts == 4      \* upsert-model calls per model_id in one run
MaxRanges == 2       \* length of the tracked_ranges lists the matcher is tried on
MaxConcurrent == 2   \* upsert-model calls on one model being handled at once
MaxTraces == 2       \* rows of the trace store
MaxBatch == 2        \* entries of changes in one create-model-trace-batch request
MaxTime == 2         \* readings of the producer's clock after the first
MaxSetups == 2       \* runs of the taskpane's setupChangeTracking

----------------------------------------------------------------------------
(* Strings as character sequences *)

\* JavaScript's null and undefined, as records so that they compare with objects
Null == [null |-> TRUE]
Undefined == [undefined |-> TRUE]
Falsy(x) == x = Null \/ x = Undefined

\* an optional request field: present with a value, or absent
Some(x) == {x}
None == {}
Get(o) == CHOOSE x \in o : TRUE

NoReply == [op |-> "none", status |-> "none", body |-> Null]
NoRequest ==
    [op |-> "none", model_name |-> None, tracked_ranges |-> <<>>, model_id |-> None,
     version |-> None]

DigitChar == <<"0", "1", "2", "3", "4", "5", "6", "7", "8", "9">>

RECURSIVE Digits(_)
Digits(n) == IF n < 10 THEN <<DigitChar[n + 1]>>
             ELSE Digits(n \div 10) \o <<DigitChar[(n % 10) + 1]>>

SheetPrefix == <<"S", "h", "e", "e", "t", "1", "!">>

\* s.includes(t): t occurs in s as a contiguous run of characters
Includes(s, t) ==
    \E i \in 0..(Len(s) - Len(t)) :
        \A k \in 1..Len(t) : s[i + k] = t[k]

----------------------------------------------------------------------------
(* Addresses.  A range is a rectangle of cells, written the way Excel      *)
(* writes it: an optional sheet prefix, the top-left cell, and for more    *)
(* than one cell a colon and the bottom-right cell.                        *)

ColChar == <<"A", "B", "C">>
Rows == {1, 3, 5, 10}

CellText(c, r) == <<ColChar[c]>> \o Digits(r)

Geoms == {g \in [q : BOOLEAN, c1 : 1..3, r1 : Rows, c2 : 1..3, r2 : Rows] :
            g.c1 <= g.c2 /\ g.r1 <= g.r2}

Text(g) == (IF g.q THEN SheetPrefix ELSE <<>>)
           \o CellText(g.c1, g.r1)
           \o (IF g.c1 = g.c2 /\ g.r1 = g.r2 THEN <<>>
               ELSE <<":">> \o CellText(g.c2, g.r2))

Rect(q, c1, r1, c2, r2) == Text([q |-> q, c1 |-> c1, r1 |-> r1, c2 |-> c2, r2 |-> r2])
Cell(q, c, r) == Rect(q, c, r, c, r)

\* the rectangle an address text denotes
Parse(text) == CHOOSE g \in Geoms : Text(g) = text

\* every cell of rectangle inner lies in rectangle outer
Covers(outer, inner) ==
    /\ outer.c1 <= inner.c1 /\ inner.c2 <= outer.c2
    /\ outer.r1 <= inner.r1 /\ inner.r2 <= outer.r2

TR(name, range) == [name |-> name, range |-> range]

RangeA == TR("A", Rect(TRUE, 1, 1, 1, 5))      \* Sheet1!A1:A5
RangeB == TR("B", Rect(TRUE, 2, 1, 2, 5))      \* Sheet1!B1:B5
RangeTen == TR("Ten", Cell(FALSE, 1, 10))      \* A10
RangeCol == TR("Col", Rect(FALSE, 1, 1, 1, 10)) \* A1:A10
RangeOne == TR("One", Cell(FALSE, 1, 1))       \* A1

TrackedRanges == {RangeA, RangeB, RangeTen, RangeCol, RangeOne}

\* the addresses findTrackedRange is tried on
Addresses == {Cell(TRUE, 1, 3), Cell(TRUE, 3, 1), Cell(FALSE, 1, 1),
              Cell(FALSE, 1, 3), Cell(FALSE, 1, 10), Cell(FALSE, 3, 1)}

\* the addresses the worksheet change events of a run report
ChangeAddresses == {Cell(FALSE, 1, 1), Cell(FALSE, 3, 1), Cell(TRUE, 1, 3)}

Model(id, ranges, version) ==
    [model_name |-> "Budget", tracked_ranges |-> ranges, model_id |-> id, version |-> version]

----------------------------------------------------------------------------
(* RangeNameMatcher *)

Matches(address, tr) == Includes(address, tr.range) \/ Includes(tr.range, address)

\* a find that returns the last element satisfying the predicate
ArrayFind_last(list, address) ==
    IF \E i \in 1..Len(list) : Matches(address, list[i])
    THEN list[CHOOSE i \in 1..Len(list) :
                /\ Matches(address, list[i])
                /\ \A j \in (i + 1)..Len(list) : ~Matches(address, list[j])]
    ELSE Undefined

\* a find that falls back to the first element when none satisfies the predicate
ArrayFind_default(list, address) ==
    IF \E i \in 1..Len(list) : Matches(address, list[i])
    THEN list[CHOOSE i \in 1..Len(list) :
                /\ Matches(address, list[i])
                /\ \A j \in 1..(i - 1) : ~Matches(address, list[j])]
    ELSE IF Len(list) > 0 THEN list[1] ELSE Undefined

\* Array.prototype.find: the first element satisfying the predicate, else undefined
ArrayFind(list, address) ==
    IF \E i \in 1..Len(list) : Matches(address, list[i])
    THEN list[CHOOSE i \in 1..Len(list) :
                /\ Matches(address, list[i])
                /\ \A j \in 1..(i - 1) : ~Matches(address, list[j])]
    ELSE Undefined

findTrackedRangeIn(config, address) ==
    IF Falsy(config) THEN Null ELSE ArrayFind(config.tracked_ranges, address)

findTrackedRange(address) == findTrackedRangeIn(modelConfig, address)

----------------------------------------------------------------------------
(* The producer: commands.js *)

QUEUE_LIMIT == 100

ProducerModelId == "m1"
ModelIds == {"m1", "m2"}

Ids(seq) == {seq[i].id : i \in 1..Len(seq)}

Last(op, address, trace, batch, outcome) ==
    [op |-> op, address |-> address, trace |-> trace, batch |-> batch, outcome |-> outcome]

\* a size limit that gives up the record just pushed
Pushed_dropsNewest(queue, traceData) ==
    LET q == Append(queue, traceData)
    IN  IF Len(q) > QUEUE_LIMIT THEN SubSeq(q, 1, QUEUE_LIMIT) ELSE q

\* traceQueue.push(..) and the size limit of queueTraceLocally
Pushed(queue, traceData) ==
    LET q == Append(queue, traceData)
    IN  IF Len(q) > QUEUE_LIMIT THEN Tail(q) ELSE q

\* what queueTraceLocally's traceQueue.shift() removes, if it runs
Shifted(queue) ==
    IF Len(queue) + 1 > QUEUE_LIMIT
    THEN {[id |-> queue[1].id, len |-> Len(queue)]}
    ELSE {}

\* the pushes since the queue was last empty
NoStreak == [clean |-> TRUE, ids |-> <<>>]
Broken == [clean |-> FALSE, ids |-> <<>>]
StreakPushed(st, traceData) ==
    IF st.clean THEN [st EXCEPT !.ids = Append(@, traceData.id)] ELSE st
StreakFlushed(st, f) == IF f.sent = <<>> THEN st ELSE NoStreak

\* a flush that sends the queue and leaves it in place
flushTraceQueue_keeps(queue, online) ==
    IF Len(queue) = 0 \/ ~online
    THEN [queue |-> queue, sent |-> <<>>, online |-> online]
    ELSE [queue |-> queue, sent |-> queue, online |-> online]

\* a flush that never sends
flushTraceQueue_never(queue, online) == [queue |-> queue, sent |-> <<>>, online |-> online]

\* The synchronous part of flushTraceQueue, run with the queue and the online
\* flag its caller left: the queue it leaves and the batch it sends (<<>>: no request).
flushTraceQueue(queue, online) ==
    IF Len(queue) = 0 \/ ~online
    THEN [queue |-> queue, sent |-> <<>>, online |-> online]
    ELSE IF Falsy(modelConfig)
         \* modelConfig.model_id throws inside the try: the catch re-queues
         THEN [queue |-> queue, sent |-> <<>>, online |-> FALSE]
         ELSE [queue |-> <<>>, sent |-> queue, online |-> online]

\* the re-queue with the taken records behind the newer ones
Requeue_behind(traces, queue) == queue \o traces

\* the re-queue forgetting the taken records
Requeue_dropped(traces, queue) == queue

\* traces.concat(traceQueue)
Requeue(traces, queue) == traces \o queue

Sent(f) == IF f.sent = <<>> THEN {} ELSE {f.sent}

\* what a fetch completing now yields
Outcome == CASE service = "reachable" -> "ok"
             [] service = "error" -> "status"
             [] service = "unreachable" -> "throw"

\* loadModelFromBackend: the model on a 200; null on a 404 (no stored model),
\* null on any other status, null when the fetch throws
loadModelFromBackend(outcome, stored) ==
    CASE outcome = "ok" /\ stored # Null -> stored
      [] outcome = "ok" /\ stored = Null -> Null
      [] outcome = "status" -> Null
      [] outcome = "throw" -> Null

\* a start that adds its handler whether or not monitoring is active
startLiveMonitoring_unguarded(active, count) ==
    [monitoringActive |-> TRUE, handlers |-> count + 1]

\* startLiveMonitoring: returns when monitoring is active, otherwise adds the
\* onChanged handler and sets the flag
startLiveMonitoring(active, count) ==
    IF active
    THEN [monitoringActive |-> active, handlers |-> count]
    ELSE [monitoringActive |-> TRUE, handlers |-> count + 1]

\* initializeMonitoring with loadModelFromBackend and startLiveMonitoring
initializeMonitoring ==
    LET stored == workbook_model_db[ProducerModelId]
        registered == loadModelFromBackend(Outcome, stored)
        started == startLiveMonitoring(monitoringActive, handlers)
    IN  /\ modelConfig' = IF Falsy(registered) THEN modelConfig ELSE registered
        /\ monitoringActive' = IF Falsy(registered) THEN monitoringActive
                               ELSE started.monitoringActive
        /\ handlers' = IF Falsy(registered) THEN handlers ELSE started.handlers
        /\ starts' = IF Falsy(registered) THEN starts ELSE starts + 1
        /\ last' = Last("initializeMonitoring", <<>>, registered, <<>>, Outcome)
        /\ UNCHANGED <<traceQueue, isOnline, creating, flushing, timers, service,
                       nextId, delivered, enqueued, evicted, streak>>

\* handleCellChange up to the fetch of createTrace
handleCellChange(address) ==
    /\ monitoringActive
    /\ nextId < MaxChanges
    /\ Cardinality(creating) < MaxInFlight
    /\ LET trackedRange == findTrackedRange(address)
           traceData == [id |-> nextId + 1, timestamp |-> now,
                         tracked_range_name |-> trackedRange.name]
       IN  IF ~Falsy(trackedRange)
           THEN /\ creating' = creating \cup {traceData}
                /\ last' = Last("handleCellChange", address, traceData, <<>>, "traced")
           ELSE /\ creating' = creating
                /\ last' = Last("handleCellChange", address, Null, <<>>, "ignored")
    /\ nextId' = nextId + 1
    /\ UNCHANGED <<handlers, starts, monitoringActive, modelConfig, traceQueue, isOnline, flushing,
                   timers, service, delivered, enqueued, evicted, streak>>

\* createTrace from the completion of its fetch, with queueTraceLocally and
\* the flushTraceQueue call it makes
createTrace(traceData) ==
    /\ traceData \in creating
    /\ creating' = creating \ {traceData}
    /\ last' = Last("createTrace", <<>>, traceData, <<>>, Outcome)
    /\ CASE Outcome = "ok" ->
              LET f == flushTraceQueue(traceQueue, TRUE)
              IN  /\ isOnline' = f.online
                  /\ traceQueue' = f.queue
                  /\ flushing' = flushing \cup Sent(f)
                  /\ delivered' = delivered \cup {traceData.id}
                  /\ streak' = StreakFlushed(streak, f)
                  /\ UNCHANGED <<timers, enqueued, evicted>>
         [] Outcome = "status" ->
              UNCHANGED <<isOnline, traceQueue, flushing, delivered, timers, enqueued, evicted,
                          streak>>
         [] Outcome = "throw" ->
              /\ isOnline' = FALSE
              /\ traceQueue' = Pushed(traceQueue, traceData)
              /\ evicted' = evicted \cup Shifted(traceQueue)
              /\ enqueued' = enqueued \cup {traceData.id}
              /\ streak' = StreakPushed(streak, traceData)
              /\ timers' = timers + 1
              /\ UNCHANGED <<flushing, delivered>>
    /\ UNCHANGED <<handlers, starts, monitoringActive, modelConfig, service, nextId>>

\* a setTimeout(flushTraceQueue, 30000) callback runs
timerFires ==
    /\ timers > 0
    /\ timers' = timers - 1
    /\ LET f == flushTraceQueue(traceQueue, isOnline)
       IN  /\ isOnline' = f.online
           /\ traceQueue' = f.queue
           /\ flushing' = flushing \cup Sent(f)
           /\ streak' = StreakFlushed(streak, f)
           /\ last' = Last("timerFires", <<>>, Null, f.sent, IF f.sent = <<>> THEN "noop" ELSE "sent")
    /\ UNCHANGED <<handlers, starts, monitoringActive, modelConfig, creating, service, nextId,
                   delivered, enqueued, evicted>>

\* flushTraceQueue from the completion of its batch fetch
flushResponse(traces) ==
    /\ traces \in flushing
    /\ flushing' = flushing \ {traces}
    /\ last' = Last("flushResponse", <<>>, Null, traces, Outcome)
    /\ CASE Outcome = "ok" ->
              /\ delivered' = delivered \cup Ids(traces)
              /\ UNCHANGED <<traceQueue, isOnline, streak>>
         [] Outcome = "status" ->
              /\ traceQueue' = Requeue(traces, traceQueue)
              /\ streak' = Broken
              /\ UNCHANGED <<delivered, isOnline>>
         [] Outcome = "throw" ->
              /\ traceQueue' = Requeue(traces, traceQueue)
              /\ isOnline' = FALSE
              /\ streak' = Broken
              /\ UNCHANGED delivered
    /\ UNCHANGED <<handlers, starts, monitoringActive, modelConfig, creating, timers, service, nextId,
                   enqueued, evicted>>

\* the network or the service changes condition
serviceChanges ==
    /\ \E s \in {"reachable", "error", "unreachable"} \ {service} : service' = s
    /\ last' = Last("serviceChanges", <<>>, Null, <<>>, "")
    /\ UNCHANGED <<handlers, starts, monitoringActive, modelConfig, traceQueue, isOnline, creating,
                   flushing, timers, nextId, delivered, enqueued, evicted, streak>>

\* the taskpane before Office.onReady
PaneInit ==
    /\ currentModel = Null
    /\ trackedRanges = <<>>
    /\ changeHandlers = <<>>
    /\ onChanged = {}
    /\ modelIdProp = None
    /\ setups = 0
    /\ shown = ""
    /\ traced = Null

ProducerModels ==
    {Model(ProducerModelId, r, 1) : r \in {<<RangeA, RangeB>>, <<RangeTen>>}}

MatcherIdle ==
    /\ m_config = Null /\ m_address = <<>> /\ m_result = Null /\ m_pc = "idle"

ProducerInit ==
    /\ monitoringActive = FALSE
    /\ handlers = 0
    /\ starts = 0
    /\ modelConfig = Null
    /\ traceQueue = <<>>
    /\ isOnline = TRUE
    /\ creating = {}
    /\ flushing = {}
    /\ timers = 0
    /\ service \in {"reachable", "error", "unreachable"}
    /\ nextId = 0
    /\ delivered = {}
    /\ enqueued = {}
    /\ evicted = {}
    /\ last = Last("load", <<>>, Null, <<>>, "")
    /\ streak = NoStreak
    /\ overdue = {}
    /\ loads = 0
    /\ now = 0
    /\ sentAt = <<>>
    /\ PaneInit
    /\ updating = {}
    /\ added = {}

Init ==
    /\ ProducerInit
    /\ \E m \in ProducerModels \cup {Null} :
         workbook_model_db = [id \in ModelIds |-> IF id = ProducerModelId THEN m ELSE Null]
    /\ returned = [id \in ModelIds |-> <<>>]
    /\ reply = NoReply
    /\ request = NoRequest
    /\ upserting = {}
    /\ lock = [id \in ModelIds |-> FALSE]
    /\ workbook_trace = <<>>
    /\ payload = Null
    /\ MatcherIdle

\* Office.onReady: the first thing to run, once
InitializeMonitoringStep ==
    /\ last.op = "load"
    /\ initializeMonitoring
    /\ UNCHANGED <<serverVars, matcherVars, clockVars, lockVars, traceVars, editVars, loadVars, timeVars, paneVars>>
HandleCellChangeStep ==
    \E address \in ChangeAddresses : handleCellChange(address) /\ UNCHANGED <<serverVars, matcherVars, clockVars, lockVars, traceVars, editVars, loadVars, timeVars, paneVars>>
CreateTraceStep == \E t \in creating : createTrace(t) /\ UNCHANGED <<serverVars, matcherVars, clockVars, lockVars, traceVars, editVars, loadVars, timeVars, paneVars>>
TimerFiresStep == timerFires /\ UNCHANGED <<serverVars, matcherVars, clockVars, lockVars, traceVars, editVars, loadVars, timeVars, paneVars>>
FlushResponseStep == \E b \in flushing : flushResponse(b) /\ UNCHANGED <<serverVars, matcherVars, clockVars, lockVars, traceVars, editVars, loadVars, timeVars, paneVars>>
ServiceChangesStep == serviceChanges /\ UNCHANGED <<serverVars, matcherVars, clockVars, lockVars, traceVars, editVars, loadVars, timeVars, paneVars>>

\* the events of a loaded add-in
Running ==
    \/ HandleCellChangeStep
    \/ CreateTraceStep
    \/ TimerFiresStep
    \/ FlushResponseStep
    \/ ServiceChangesStep

Next == InitializeMonitoringStep \/ Running

Spec == Init /\ [][Next]_vars

FullModel == Model(ProducerModelId, <<RangeTen>>, 1)

\* The producer of a workbook whose model is registered.  The fetch promises
\* settle and their continuations run; a due timer runs.
InitLive ==
    /\ Init
    /\ workbook_model_db[ProducerModelId] = FullModel

SpecLive ==
    /\ InitLive /\ [][Next]_vars
    /\ WF_vars(CreateTraceStep)
    /\ WF_vars(FlushResponseStep)
    /\ WF_vars(TimerFiresStep)

\* The producer after QUEUE_LIMIT - 1 consecutive create-trace attempts have
\* thrown while the service was unreachable: every one was queued, the timers
\* of all but the last have run (each a no-op, the producer being offline).
\* The last attempt was for the first change event of the run; the change
\* events before the run carry the ids 3 - QUEUE_LIMIT .. 0.
FullQueue ==
    [i \in 1..(QUEUE_LIMIT - 1) |->
        [id |-> i - (QUEUE_LIMIT - 2), timestamp |-> 0, tracked_range_name |-> RangeTen.name]]

InitFull ==
    /\ monitoringActive = TRUE
    /\ handlers = 1
    /\ starts = 1
    /\ modelConfig = FullModel
    /\ traceQueue = FullQueue
    /\ isOnline = FALSE
    /\ creating = {}
    /\ flushing = {}
    /\ timers = 1
    /\ service = "unreachable"
    /\ nextId = 1
    /\ delivered = {}
    /\ enqueued = Ids(FullQueue)
    /\ evicted = {}
    /\ last = Last("createTrace", <<>>, FullQueue[QUEUE_LIMIT - 1], <<>>, "throw")
    /\ streak = [clean |-> TRUE, ids |-> [i \in 1..(QUEUE_LIMIT - 1) |-> FullQueue[i].id]]
    /\ overdue = {}
    /\ loads = 0
    /\ now = 0
    /\ sentAt = <<>>
    /\ PaneInit
    /\ updating = {}
    /\ added = {}
    /\ workbook_model_db = [id \in ModelIds |-> IF id = ProducerModelId THEN FullModel ELSE Null]
    /\ returned = [id \in ModelIds |-> <<>>]
    /\ reply = NoReply
    /\ request = NoRequest
    /\ upserting = {}
    /\ lock = [id \in ModelIds |-> FALSE]
    /\ workbook_trace = <<>>
    /\ payload = Null
    /\ MatcherIdle

SpecFull == InitFull /\ [][Running]_vars

\* Ten seconds pass after the fetch of createTrace was started and its promise
\* is still pending.  The fetch is given no timeout, signal or race, so no
\* handler of the add-in runs.
deadlinePasses(traceData) ==
    /\ traceData \in creating
    /\ traceData.id \notin overdue
    /\ overdue' = overdue \cup {traceData.id}
    /\ UNCHANGED <<handlers, starts, monitoringActive, modelConfig, traceQueue, isOnline, creating,
                   flushing, timers, service, nextId, delivered, enqueued, evicted, last,
                   streak>>

DeadlinePassesStep ==
    \E t \in creating : deadlinePasses(t) /\ UNCHANGED <<serverVars, matcherVars, lockVars, traceVars, editVars, loadVars, timeVars, paneVars>>

TimedNext == Next \/ DeadlinePassesStep

\* the producer with the passing of request deadlines observed
SpecTimed == InitLive /\ [][TimedNext]_vars

----------------------------------------------------------------------------
(* The matcher on its own: findTrackedRange applied to a tracked_ranges     *)
(* list and an address.                                                     *)

RangeLists == UNION {[1..n -> TrackedRanges] : n \in 0..MaxRanges}

ProducerIdle ==
    /\ ProducerInit
    /\ service = "reachable"

MatchInit ==
    /\ m_config \in {Null} \cup {Model(ProducerModelId, r, 1) : r \in RangeLists}
    /\ m_address \in Addresses
    /\ m_result = Null
    /\ m_pc = "call"
    /\ ProducerIdle
    /\ workbook_model_db = [id \in ModelIds |-> Null]
    /\ returned = [id \in ModelIds |-> <<>>]
    /\ reply = NoReply
    /\ request = NoRequest
    /\ upserting = {}
    /\ lock = [id \in ModelIds |-> FALSE]
    /\ workbook_trace = <<>>
    /\ payload = Null

Resolve ==
    /\ m_pc = "call"
    /\ m_result' = findTrackedRangeIn(m_config, m_address)
    /\ m_pc' = "done"
    /\ UNCHANGED <<m_config, m_address, producerVars, serverVars, clockVars, lockVars, traceVars, editVars, loadVars, timeVars, paneVars>>

SpecMatch == MatchInit /\ [][Resolve]_vars

----------------------------------------------------------------------------
(* The service: upsert-model and load-model over the model store *)

Names == {"Budget", "Costs"}
PayloadRanges == {<<>>, <<RangeA>>, <<RangeA, RangeB>>}
VersionFields == {None, Some(1), Some(2), Some(9)}

Reply(op, status, body) == [op |-> op, status |-> status, body |-> body]

\* the version an update stores, taking the caller's version field for the stored one
NewVersion_fromRequest(existing, version) ==
    IF version = None THEN existing.version + 1 ELSE Get(version) + 1

\* an update that keeps the stored version when the caller's version is behind it
NewVersion_unlessStale(existing, version) ==
    IF version # None /\ Get(version) < existing.version
    THEN existing.version
    ELSE existing.version + 1

\* the version an update stores
NewVersion(existing, version) == existing.version + 1

\* a first version taken from the caller's version field
CreateVersion_fromRequest(version) == IF version = None THEN 1 ELSE Get(version)

\* the version a newly created model gets
CreateVersion(version) == 1

\* an update that adds the request's ranges to the stored ones
StoredRanges_merged(existing, tracked_ranges) ==
    IF existing = Null THEN tracked_ranges
    ELSE existing.tracked_ranges \o
         SelectSeq(tracked_ranges,
                   LAMBDA tr : \A i \in 1..Len(existing.tracked_ranges) :
                                   existing.tracked_ranges[i] # tr)

\* the tracked_ranges an upsert stores: the request's, replacing the stored list
StoredRanges(existing, tracked_ranges) == tracked_ranges

Request(op, model_name, tracked_ranges, model_id, version) ==
    [op |-> op, model_name |-> model_name, tracked_ranges |-> tracked_ranges,
     model_id |-> model_id, version |-> version]

upsertModel(model_name, tracked_ranges, model_id, version) ==
    /\ request' = Request("upsert-model", model_name, tracked_ranges, model_id, version)
    /\ IF model_name = None
       THEN /\ reply' = Reply("upsert-model", "Malformed", Null)
            /\ UNCHANGED <<workbook_model_db, returned>>
       ELSE \E id \in ModelIds :
              /\ IF model_id = None THEN workbook_model_db[id] = Null ELSE id = Get(model_id)
              /\ Len(returned[id]) < MaxUpserts
              /\ LET existing == workbook_model_db[id]
                     stored == [model_name |-> Get(model_name),
                                tracked_ranges |-> StoredRanges(existing, tracked_ranges),
                                model_id |-> id,
                                version |-> IF existing = Null THEN CreateVersion(version)
                                            ELSE NewVersion(existing, version)]
                 IN  /\ workbook_model_db' = [workbook_model_db EXCEPT ![id] = stored]
                     /\ returned' = [returned EXCEPT ![id] = Append(@, stored.version)]
                     /\ reply' = Reply("upsert-model", "OK", stored)

\* a load that answers with the model as first created
loadModel_firstVersion(model_id) ==
    /\ request' = Request("load-model", None, <<>>, Some(model_id), None)
    /\ reply' = IF workbook_model_db[model_id] = Null
                THEN Reply("load-model", "NotFound", Null)
                ELSE Reply("load-model", "OK",
                           [workbook_model_db[model_id] EXCEPT !.version = 1])
    /\ UNCHANGED <<workbook_model_db, returned>>

loadModel(model_id) ==
    /\ request' = Request("load-model", None, <<>>, Some(model_id), None)
    /\ reply' = IF workbook_model_db[model_id] = Null
                THEN Reply("load-model", "NotFound", Null)
                ELSE Reply("load-model", "OK", workbook_model_db[model_id])
    /\ UNCHANGED <<workbook_model_db, returned>>

ServerInit ==
    /\ workbook_model_db = [id \in ModelIds |-> Null]
    /\ returned = [id \in ModelIds |-> <<>>]
    /\ reply = NoReply
    /\ request = NoRequest
    /\ upserting = {}
    /\ lock = [id \in ModelIds |-> FALSE]
    /\ workbook_trace = <<>>
    /\ payload = Null
    /\ ProducerIdle
    /\ MatcherIdle

UpsertModelStep ==
    /\ \E model_name \in {None} \cup {Some(n) : n \in Names},
          tracked_ranges \in PayloadRanges,
          model_id \in {None} \cup {Some(id) : id \in ModelIds},
          version \in VersionFields :
         upsertModel(model_name, tracked_ranges, model_id, version)
    /\ UNCHANGED <<producerVars, matcherVars, clockVars, lockVars, traceVars, editVars, loadVars, timeVars, paneVars>>

LoadModelStep ==
    /\ \E model_id \in ModelIds : loadModel(model_id)
    /\ UNCHANGED <<producerVars, matcherVars, clockVars, lockVars, traceVars, editVars, loadVars, timeVars, paneVars>>

ServerNext == UpsertModelStep \/ LoadModelStep

SpecServer == ServerInit /\ [][ServerNext]_vars

----------------------------------------------------------------------------
(* The service: create-model-trace and create-model-trace-batch over the    *)
(* trace store, whose rows reference a stored model.                        *)

\* the timestamp and username two callers send
Stamps == {[timestamp |-> 1, username |-> "ann"], [timestamp |-> 2, username |-> "bob"]}
RangeNames == {RangeA.name, RangeB.name}

RECURSIVE SeqsUpTo(_, _)
SeqsUpTo(S, n) ==
    IF n = 0 THEN {<<>>}
    ELSE LET shorter == SeqsUpTo(S, n - 1)
         IN  shorter \cup {Append(q, x) : q \in shorter, x \in S}

ChangeLists == SeqsUpTo(RangeNames, MaxBatch)

Row(model_id, timestamp, tracked_range_name, username) ==
    [model_id |-> model_id, timestamp |-> timestamp,
     tracked_range_name |-> tracked_range_name, username |-> username]

Payload(timestamp, username, changes) ==
    [timestamp |-> timestamp, username |-> username, changes |-> changes]

\* a referential check that lets every model_id through
ModelExists_any(model_id) == TRUE

\* FK_workbook_trace_model: the row's model_id is a stored model's
ModelExists(model_id) == workbook_model_db[model_id] # Null

createModelTrace(model_id, timestamp, tracked_range_name, username) ==
    /\ request' = Request("create-model-trace", None, <<>>, Some(model_id), None)
    /\ payload' = Payload(timestamp, username, <<tracked_range_name>>)
    /\ IF ModelExists(model_id)
       THEN /\ Len(workbook_trace) < MaxTraces
            /\ workbook_trace' =
                 Append(workbook_trace, Row(model_id, timestamp, tracked_range_name, username))
            /\ reply' = Reply("create-model-trace", "OK", Null)
       ELSE /\ reply' = Reply("create-model-trace", "NotFound", Null)
            /\ UNCHANGED workbook_trace
    /\ UNCHANGED <<workbook_model_db, returned>>

\* a batch that stores one row per tracked range named in changes
BatchRows_perRange(model_id, timestamp, username, changes) ==
    LET firsts == {i \in 1..Len(changes) : \A j \in 1..(i - 1) : changes[j] # changes[i]}
        Pick[k \in 0..Len(changes)] ==
            IF k = 0 THEN <<>>
            ELSE IF k \in firsts
                 THEN Append(Pick[k - 1], Row(model_id, timestamp, changes[k], username))
                 ELSE Pick[k - 1]
    IN  Pick[Len(changes)]

\* the rows a batch stores: one per entry of changes
BatchRows(model_id, timestamp, username, changes) ==
    [i \in 1..Len(changes) |-> Row(model_id, timestamp, changes[i], username)]

createModelTraceBatch(model_id, timestamp, username, changes) ==
    /\ request' = Request("create-model-trace-batch", None, <<>>, Some(model_id), None)
    /\ payload' = Payload(timestamp, username, changes)
    /\ IF ModelExists(model_id)
       THEN /\ Len(workbook_trace) + Len(changes) <= MaxTraces
            /\ workbook_trace' =
                 workbook_trace \o BatchRows(model_id, timestamp, username, changes)
            /\ reply' = Reply("create-model-trace-batch", "OK", Null)
       ELSE /\ reply' = Reply("create-model-trace-batch", "NotFound", Null)
            /\ UNCHANGED workbook_trace
    /\ UNCHANGED <<workbook_model_db, returned>>

\* a model is registered
RegisterStep ==
    /\ \E id \in ModelIds :
         /\ workbook_model_db[id] = Null
         /\ upsertModel(Some("Budget"), <<RangeA, RangeB>>, Some(id), None)
    /\ UNCHANGED <<producerVars, matcherVars, clockVars, lockVars, traceVars, editVars, loadVars, timeVars, paneVars>>

CreateModelTraceStep ==
    /\ \E model_id \in ModelIds, stamp \in Stamps, name \in RangeNames :
         createModelTrace(model_id, stamp.timestamp, name, stamp.username)
    /\ UNCHANGED <<producerVars, matcherVars, clockVars, lockVars, editVars, loadVars, timeVars, paneVars>>

CreateModelTraceBatchStep ==
    /\ \E model_id \in ModelIds, stamp \in Stamps, changes \in ChangeLists :
         createModelTraceBatch(model_id, stamp.timestamp, stamp.username, changes)
    /\ UNCHANGED <<producerVars, matcherVars, clockVars, lockVars, editVars, loadVars, timeVars, paneVars>>

TracesNext == RegisterStep \/ CreateModelTraceStep \/ CreateModelTraceBatchStep

SpecTraces == ServerInit /\ [][TracesNext]_vars

----------------------------------------------------------------------------
(* The ribbon command that adds a tracked range: updateModelAddRange and   *)
(* the upsert-model request it sends.                                       *)

\* The ranges the user adds with the ribbon command
EditRanges == {RangeA, RangeB, RangeOne}

\* a cache that keeps its own count of the versions
Reconciled_local(cache, updatedModel) == [updatedModel EXCEPT !.version = cache.version + 1]

\* modelConfig = updatedModel
Reconciled(cache, updatedModel) == updatedModel

\* updateModelAddRange up to its fetch: the request carries the cached list
\* with the new range appended, and the cached version
updateModelAddRange(newTrackedRange) ==
    /\ ~Falsy(modelConfig)
    /\ newTrackedRange \notin added
    /\ \A u \in updating : u.range # newTrackedRange
    /\ LET updatedRanges == Append(modelConfig.tracked_ranges, newTrackedRange)
       IN  updating' = updating \cup
             {[range |-> newTrackedRange,
               body |-> [model_name |-> modelConfig.model_name,
                         tracked_ranges |-> updatedRanges,
                         model_id |-> modelConfig.model_id,
                         version |-> modelConfig.version],
               pc |-> "sent",
               response |-> NoReply]}
    /\ last' = Last("addTrackedRange", <<>>, Null, <<>>, "sent")
    /\ UNCHANGED <<handlers, starts, monitoringActive, modelConfig, traceQueue, isOnline, creating, flushing,
                   timers, service, nextId, delivered, enqueued, evicted, streak, added>>
    /\ UNCHANGED <<serverVars, matcherVars, clockVars, lockVars, traceVars, loadVars, timeVars, paneVars>>

\* the service handles the upsert-model request, or fails to
serviceUpserts(u) ==
    /\ u \in updating /\ u.pc = "sent"
    /\ IF Outcome = "ok"
       THEN /\ upsertModel(Some(u.body.model_name), u.body.tracked_ranges,
                           Some(u.body.model_id), Some(u.body.version))
            /\ updating' = (updating \ {u}) \cup
                 {[u EXCEPT !.pc = "answered", !.response = reply']}
       ELSE /\ updating' = (updating \ {u}) \cup
                 {[u EXCEPT !.pc = "answered",
                            !.response = Reply("upsert-model", Outcome, Null)]}
            /\ UNCHANGED serverVars
    /\ UNCHANGED <<producerVars, added, matcherVars, clockVars, lockVars, traceVars, loadVars, timeVars, paneVars>>

\* updateModelAddRange from the completion of its fetch
updateResponse(u) ==
    /\ u \in updating /\ u.pc = "answered"
    /\ updating' = updating \ {u}
    /\ IF u.response.status = "OK"
       THEN /\ modelConfig' = Reconciled(modelConfig, u.response.body)
            /\ added' = added \cup {u.range}
            /\ last' = Last("updateModelAddRange", <<>>, u.response.body, <<>>, "ok")
       ELSE /\ last' = Last("updateModelAddRange", <<>>, Null, <<>>, "throw")
            /\ UNCHANGED <<modelConfig, added>>
    /\ UNCHANGED <<handlers, starts, monitoringActive, traceQueue, isOnline, creating, flushing,
                   timers, service, nextId, delivered, enqueued, evicted, streak>>
    /\ UNCHANGED <<serverVars, matcherVars, clockVars, lockVars, traceVars, loadVars, timeVars, paneVars>>

\* the add-in of a registered workbook, monitoring, with nothing queued
InitEdit ==
    /\ ProducerInit
    /\ workbook_model_db = [id \in ModelIds |-> IF id = ProducerModelId THEN FullModel ELSE Null]
    /\ returned = [id \in ModelIds |-> IF id = ProducerModelId THEN <<1>> ELSE <<>>]
    /\ reply = NoReply
    /\ request = NoRequest
    /\ upserting = {}
    /\ lock = [id \in ModelIds |-> FALSE]
    /\ workbook_trace = <<>>
    /\ payload = Null
    /\ MatcherIdle

UpdateModelAddRangeStep == \E tr \in EditRanges : updateModelAddRange(tr)
ServiceUpsertsStep == \E u \in updating : serviceUpserts(u)
UpdateResponseStep == \E u \in updating : updateResponse(u)

EditNext ==
    \/ InitializeMonitoringStep
    \/ UpdateModelAddRangeStep
    \/ ServiceUpsertsStep
    \/ UpdateResponseStep
    \/ ServiceChangesStep

SpecEdit == InitEdit /\ [][EditNext]_vars

----------------------------------------------------------------------------
(* Runs of initializeMonitoring that overlap: the run Office.onReady starts *)
(* and the runs the registration dialog's message starts.                   *)

\* Office.onReady calls initializeMonitoring, which awaits load-model
onReady ==
    /\ last.op = "load"
    /\ loads' = loads + 1
    /\ last' = Last("onReady", <<>>, Null, <<>>, "")
    /\ UNCHANGED <<handlers, starts, monitoringActive, modelConfig, traceQueue, isOnline,
                   creating, flushing, timers, service, nextId, delivered, enqueued,
                   evicted, streak>>
    /\ UNCHANGED <<serverVars, matcherVars, clockVars, lockVars, traceVars, editVars, timeVars, paneVars>>

\* the dialog has upserted the model and posts 'registered': the handler of
\* showRegisterModal takes message.config and calls initializeMonitoring
registered ==
    /\ Outcome = "ok"
    /\ upsertModel(Some("Budget"), <<RangeTen>>, Some(ProducerModelId), None)
    /\ modelConfig' = reply'.body
    /\ loads' = loads + 1
    /\ last' = Last("registered", <<>>, reply'.body, <<>>, "ok")
    /\ UNCHANGED <<handlers, starts, monitoringActive, traceQueue, isOnline,
                   creating, flushing, timers, service, nextId, delivered, enqueued,
                   evicted, streak>>
    /\ UNCHANGED <<matcherVars, clockVars, lockVars, traceVars, editVars, timeVars, paneVars>>

\* a run of initializeMonitoring continues when its load-model returns
initializeMonitoringResumes ==
    /\ loads > 0
    /\ loads' = loads - 1
    /\ initializeMonitoring
    /\ UNCHANGED <<serverVars, matcherVars, clockVars, lockVars, traceVars, editVars, timeVars, paneVars>>

LoadNext ==
    \/ onReady
    \/ registered
    \/ initializeMonitoringResumes
    \/ ServiceChangesStep

SpecLoad == Init /\ [][LoadNext]_vars

----------------------------------------------------------------------------
(* The producer with its clock and the trace store: the timestamp a trace  *)
(* is stored with, sent on its own or in a batch of the offline queue.      *)

currentUsername == "unknown"

\* traces.map(t => ({tracked_range_name, value})): the changes of the batch body
Changes(traces) == [i \in 1..Len(traces) |-> traces[i].tracked_range_name]

\* the timestamp of the batch body: new Date() read when flushTraceQueue sends
BatchTimestamp(traces, clock) == clock

\* the batch requests in flight with the timestamp each was sent with
Stamped(batches) ==
    [b \in batches |-> IF b \in DOMAIN sentAt THEN sentAt[b] ELSE BatchTimestamp(b, now)]

\* time passes on the producer's clock
tick ==
    /\ now < MaxTime
    /\ now' = now + 1
    /\ UNCHANGED <<sentAt, producerVars, serverVars, matcherVars, clockVars, lockVars,
                   traceVars, editVars, loadVars, paneVars>>

\* createTrace's fetch completes: on a 200 the service has stored the row of
\* the body, JSON.stringify(traceData)
storeTrace(traceData) ==
    /\ createTrace(traceData)
    /\ sentAt' = Stamped(flushing')
    /\ IF Outcome = "ok"
       THEN createModelTrace(ProducerModelId, traceData.timestamp,
                             traceData.tracked_range_name, currentUsername)
       ELSE UNCHANGED <<serverVars, traceVars>>
    /\ UNCHANGED <<now, matcherVars, clockVars, lockVars, editVars, loadVars, paneVars>>

\* a flush timer runs, sending the queue if the producer is online
timedFlush ==
    /\ timerFires
    /\ sentAt' = Stamped(flushing')
    /\ UNCHANGED <<now, serverVars, matcherVars, clockVars, lockVars, traceVars, editVars,
                   loadVars, paneVars>>

\* the batch fetch completes: on a 200 the service has stored the rows of the body
storeBatch(traces) ==
    /\ flushResponse(traces)
    /\ sentAt' = Stamped(flushing')
    /\ IF Outcome = "ok"
       THEN createModelTraceBatch(ProducerModelId, sentAt[traces], currentUsername,
                                  Changes(traces))
       ELSE UNCHANGED <<serverVars, traceVars>>
    /\ UNCHANGED <<now, matcherVars, clockVars, lockVars, editVars, loadVars, paneVars>>

StoreTraceStep == \E t \in creating : storeTrace(t)
StoreBatchStep == \E b \in flushing : storeBatch(b)

ClockNext ==
    \/ InitializeMonitoringStep
    \/ HandleCellChangeStep
    \/ StoreTraceStep
    \/ timedFlush
    \/ StoreBatchStep
    \/ ServiceChangesStep
    \/ tick

SpecClock == InitLive /\ [][ClockNext]_vars

----------------------------------------------------------------------------
(* The taskpane tracker: taskpane.ts.  It keeps its own model and attaches *)
(* one onChanged handler per tracked range to the range's worksheet.        *)

\* the worksheets of the workbook
Worksheets == {<<"S", "h", "e", "e", "t", "1">>}

\* what the form's range name and address fields are filled with
PaneRanges == {RangeA, RangeB}

\* the cells a user edits
ChangedCells == {Parse(Cell(FALSE, 1, 3)), Parse(Cell(FALSE, 1, 10))}

\* range.split("!"): the positions of the separator
Bangs(text) == {i \in 1..Len(text) : text[i] = "!"}
Least(S) == CHOOSE i \in S : \A j \in S : i <= j
Greatest(S) == CHOOSE i \in S : \A j \in S : j <= i

\* const [sheetName] = trackedRange.range.split("!")
SheetNameOf(text) ==
    IF Bangs(text) = {} THEN text ELSE SubSeq(text, 1, Least(Bangs(text)) - 1)

\* const [sheetName, rangeAddress] = trackedRange.range.split("!")
RangeAddressOf(text) ==
    IF Bangs(text) = {} THEN Undefined
    ELSE LET b == Least(Bangs(text))
             rest == {i \in Bangs(text) : i > b}
         IN  SubSeq(text, b + 1, IF rest = {} THEN Len(text) ELSE Least(rest) - 1)

\* getIntersectionOrNullObject: the rectangles share a cell
Intersects(a, b) ==
    /\ a.c1 <= b.c2 /\ b.c1 <= a.c2
    /\ a.r1 <= b.r2 /\ b.r1 <= a.r2

\* the handler the n-th run of setupChangeTracking adds for the i-th tracked range
Handler(n, i, trackedRange) ==
    [id |-> <<n, i>>, sheet |-> SheetNameOf(trackedRange.range), trackedRange |-> trackedRange]

\* setupChangeTracking, run n, with the model, the Map and the attached
\* handlers it finds: the handlers held in the Map are removed and the Map
\* cleared; then each tracked range whose sheet exists gets a handler, which
\* changeHandlers.set(sheetName, handler) stores under the sheet's name
setupChangeTracking(model, map, attached, n) ==
    IF Falsy(model) THEN [changeHandlers |-> map, onChanged |-> attached]
    ELSE LET kept == {h \in attached : \A sheet \in DOMAIN map : map[sheet] # h.id}
             ranges == model.tracked_ranges
             found == {i \in 1..Len(ranges) : SheetNameOf(ranges[i].range) \in Worksheets}
             fresh == {Handler(n, i, ranges[i]) : i \in found}
             OnSheet(sheet) == {i \in found : SheetNameOf(ranges[i].range) = sheet}
         IN  [changeHandlers |-> [sheet \in {h.sheet : h \in fresh} |->
                                     <<n, Greatest(OnSheet(sheet))>>],
              onChanged |-> kept \cup fresh]

\* handleRangeChange for a changed cell: whether it calls createTrace, which
\* returns without a request when no model is held
handleRangeChange(cell, trackedRange) ==
    /\ Intersects(Parse(RangeAddressOf(trackedRange.range)), cell)
    /\ ~Falsy(currentModel)

\* addTrackedRange with the form filled in
addTrackedRange(tr) ==
    /\ Len(trackedRanges) < MaxRanges
    /\ trackedRanges' = Append(trackedRanges, tr)
    /\ shown' = "Tracked range added"
    /\ UNCHANGED <<currentModel, changeHandlers, onChanged, modelIdProp, setups, traced>>
    /\ UNCHANGED <<producerVars, serverVars, matcherVars, clockVars, lockVars, traceVars,
                   editVars, loadVars, timeVars>>

removeTrackedRange(index) ==
    /\ index \in 1..Len(trackedRanges)
    /\ trackedRanges' = [i \in 1..(Len(trackedRanges) - 1) |->
                            IF i < index THEN trackedRanges[i] ELSE trackedRanges[i + 1]]
    /\ shown' = "Tracked range removed"
    /\ UNCHANGED <<currentModel, changeHandlers, onChanged, modelIdProp, setups, traced>>
    /\ UNCHANGED <<producerVars, serverVars, matcherVars, clockVars, lockVars, traceVars,
                   editVars, loadVars, timeVars>>

\* the tail the three operations share: currentModel = model and setupChangeTracking
tracking(model) ==
    LET setup == setupChangeTracking(model, changeHandlers, onChanged, setups + 1)
    IN  /\ currentModel' = model
        /\ changeHandlers' = setup.changeHandlers
        /\ onChanged' = setup.onChanged
        /\ setups' = setups + 1

\* registerModel with a model name entered; ok: the upsert-model request succeeds
registerModel(ok) ==
    /\ setups < MaxSetups
    /\ IF ok
       THEN /\ upsertModel(Some("Budget"), trackedRanges, None, None)
            /\ tracking(reply'.body)
            /\ modelIdProp' = Some(reply'.body.model_id)
            /\ shown' = "Model registered successfully"
       ELSE /\ shown' = "Error: Failed to register model"
            /\ UNCHANGED <<serverVars, currentModel, changeHandlers, onChanged, modelIdProp,
                           setups>>
    /\ UNCHANGED <<trackedRanges, traced>>
    /\ UNCHANGED <<producerVars, matcherVars, clockVars, lockVars, traceVars, editVars,
                   loadVars, timeVars>>

updateModel(ok) ==
    /\ setups < MaxSetups
    /\ IF Falsy(currentModel)
       THEN /\ shown' = "No model loaded"
            /\ UNCHANGED <<serverVars, currentModel, changeHandlers, onChanged, modelIdProp,
                           setups>>
       ELSE IF ok
            THEN /\ upsertModel(Some(currentModel.model_name), trackedRanges,
                                Some(currentModel.model_id), Some(currentModel.version))
                 /\ tracking(reply'.body)
                 /\ modelIdProp' = Some(reply'.body.model_id)
                 /\ shown' = "Model updated"
            ELSE /\ shown' = "Error: Failed to update model"
                 /\ UNCHANGED <<serverVars, currentModel, changeHandlers, onChanged,
                                modelIdProp, setups>>
    /\ UNCHANGED <<trackedRanges, traced>>
    /\ UNCHANGED <<producerVars, matcherVars, clockVars, lockVars, traceVars, editVars,
                   loadVars, timeVars>>

loadModelFromWorkbook(ok) ==
    /\ setups < MaxSetups
    /\ IF modelIdProp = None
       THEN /\ shown' = "No model found in this workbook"
            /\ UNCHANGED <<serverVars, currentModel, trackedRanges, changeHandlers, onChanged,
                           setups>>
       ELSE IF ok
            THEN /\ loadModel(Get(modelIdProp))
                 /\ tracking(reply'.body)
                 /\ trackedRanges' = reply'.body.tracked_ranges
                 /\ shown' = "Model loaded successfully"
            ELSE /\ shown' = "Error loading model"
                 /\ UNCHANGED <<serverVars, currentModel, trackedRanges, changeHandlers,
                                onChanged, setups>>
    /\ UNCHANGED <<modelIdProp, traced>>
    /\ UNCHANGED <<producerVars, matcherVars, clockVars, lockVars, traceVars, editVars,
                   loadVars, timeVars>>

\* the user edits a cell of a worksheet: every handler registered on the
\* sheet runs handleRangeChange with its own tracked range
worksheetChanged(sheet, cell) ==
    /\ traced' = [sheet |-> sheet, cell |-> cell, model |-> currentModel,
                  calls |-> {[handler |-> h.id, tracked_range_name |-> h.trackedRange.name] :
                               h \in {g \in onChanged :
                                        /\ g.sheet = sheet
                                        /\ handleRangeChange(cell, g.trackedRange)}}]
    /\ UNCHANGED <<currentModel, trackedRanges, changeHandlers, onChanged, modelIdProp, setups,
                   shown>>
    /\ UNCHANGED <<producerVars, serverVars, matcherVars, clockVars, lockVars, traceVars,
                   editVars, loadVars, timeVars>>

AddTrackedRangeStep == \E tr \in PaneRanges : addTrackedRange(tr)
RemoveTrackedRangeStep == \E index \in 1..MaxRanges : removeTrackedRange(index)
RegisterModelStep == \E ok \in BOOLEAN : registerModel(ok)
UpdateModelStep == \E ok \in BOOLEAN : updateModel(ok)
LoadModelFromWorkbookStep == \E ok \in BOOLEAN : loadModelFromWorkbook(ok)
WorksheetChangedStep == \E sheet \in Worksheets, cell \in ChangedCells : worksheetChanged(sheet, cell)

PaneNext ==
    \/ AddTrackedRangeStep
    \/ RemoveTrackedRangeStep
    \/ RegisterModelStep
    \/ UpdateModelStep
    \/ LoadModelFromWorkbookStep
    \/ WorksheetChangedStep

SpecPane == ServerInit /\ [][PaneNext]_vars

----------------------------------------------------------------------------
(* The service handling several upsert-model calls at once: each call reads   *)
(* the stored model, increments and writes, under the lock of its model.      *)

\* the version each model carries before the calls
BaseVersion(id) == IF id = ProducerModelId THEN 1 ELSE 3

\* the calls received so far for a model
Received(id) == Len(returned[id]) + Cardinality({u \in upserting : u.model_id = id})

\* a model's lock taken regardless of its holder
LockFree_always(id) == TRUE

\* the per-model lock is free
LockFree(id) == ~lock[id]

\* the calls on a model being handled
Handling(id) == {u \in upserting : u.model_id = id}

\* the version fields the concurrent callers send
CallerVersions == {None, Some(1)}

\* a call arrives and waits for the lock of its model
upsertArrives(id, version) ==
    /\ Received(id) < MaxUpserts
    /\ Cardinality(Handling(id)) < MaxConcurrent
    /\ upserting' = upserting \cup
         {[call |-> Received(id) + 1, model_id |-> id, version |-> version,
           pc |-> "waiting", existing |-> Null]}
    /\ request' = Request("upsert-model", Some("Budget"), <<>>, Some(id), version)
    /\ UNCHANGED <<workbook_model_db, returned, reply, lock>>

\* a waiting call takes the lock and reads the stored model
upsertReads(u) ==
    /\ u \in upserting /\ u.pc = "waiting"
    /\ LockFree(u.model_id)
    /\ lock' = [lock EXCEPT ![u.model_id] = TRUE]
    /\ upserting' = (upserting \ {u}) \cup
         {[u EXCEPT !.pc = "read", !.existing = workbook_model_db[u.model_id]]}
    /\ UNCHANGED <<workbook_model_db, returned, reply, request>>

\* the call writes the model with the incremented version, answers and
\* releases the lock
upsertWrites(u) ==
    /\ u \in upserting /\ u.pc = "read"
    /\ LET stored == [u.existing EXCEPT !.version = NewVersion(u.existing, u.version)]
       IN  /\ workbook_model_db' = [workbook_model_db EXCEPT ![u.model_id] = stored]
           /\ returned' = [returned EXCEPT ![u.model_id] = Append(@, stored.version)]
           /\ reply' = Reply("upsert-model", "OK", stored)
    /\ lock' = [lock EXCEPT ![u.model_id] = FALSE]
    /\ upserting' = upserting \ {u}
    /\ UNCHANGED request

ConcurrentInit ==
    /\ workbook_model_db = [id \in ModelIds |-> Model(id, <<>>, BaseVersion(id))]
    /\ returned = [id \in ModelIds |-> <<>>]
    /\ reply = NoReply
    /\ request = NoRequest
    /\ upserting = {}
    /\ lock = [id \in ModelIds |-> FALSE]
    /\ workbook_trace = <<>>
    /\ payload = Null
    /\ ProducerIdle
    /\ MatcherIdle

UpsertArrivesStep ==
    /\ \E id \in ModelIds, version \in CallerVersions : upsertArrives(id, version)
    /\ UNCHANGED <<producerVars, matcherVars, clockVars, traceVars, editVars, loadVars, timeVars, paneVars>>

UpsertReadsStep ==
    /\ \E u \in upserting : upsertReads(u)
    /\ UNCHANGED <<producerVars, matcherVars, clockVars, traceVars, editVars, loadVars, timeVars, paneVars>>

UpsertWritesStep ==
    /\ \E u \in upserting : upsertWrites(u)
    /\ UNCHANGED <<producerVars, matcherVars, clockVars, traceVars, editVars, loadVars, timeVars, paneVars>>

ConcurrentNext == UpsertArrivesStep \/ UpsertReadsStep \/ UpsertWritesStep

SpecConcurrent == ConcurrentInit /\ [][ConcurrentNext]_vars

----------------------------------------------------------------------------
(* Properties of the offline queue and the create-trace path *)

InFlightIds == UNION {Ids(b) : b \in flushing}
EvictedIds == {e.id : e \in evicted}
FlushFailed(l) == l.op = "flushResponse" /\ l.outcome \in {"status", "throw"}

\* C2: in every reachable state the offline trace queue holds at most 100 records.
C2_QueueAtMostLimit == Len(traceQueue) <= QUEUE_LIMIT

\* C3: when a flush's batch delivery fails, the records taken for that flush are
\* put back at the front of the queue in their original order, ahead of the
\* records that were enqueued while the flush was in flight.
C3_RequeuedAtFront ==
    [][FlushFailed(last') =>
         LET b == last'.batch
             n == Len(b)
         IN  /\ Len(traceQueue') = n + Len(traceQueue)
             /\ SubSeq(traceQueue', 1, n) = b
             /\ SubSeq(traceQueue', n + 1, Len(traceQueue')) = traceQueue]_vars

\* a failed flush of two or more records that found a newer record in the queue
C3_Witness ==
    /\ FlushFailed(last)
    /\ Len(last.batch) >= 2
    /\ Len(traceQueue) > Len(last.batch)

\* C4: at most one flush batch request is outstanding at any time.
C4_OneFlushInFlight == Cardinality(flushing) <= 1

\* C5: a record placed on the offline queue is still queued, or taken by a flush
\* awaiting its response, or was delivered, or was evicted from a queue at capacity.
C5_NeverDropped ==
    /\ enqueued \subseteq (Ids(traceQueue) \cup InFlightIds \cup delivered \cup EvictedIds)
    /\ \A e \in evicted : e.len >= QUEUE_LIMIT

\* one queued record was evicted and another delivered by a batch
C5_Witness ==
    /\ evicted # {}
    /\ (enqueued \cap delivered) # {}

\* C6: while the producer is offline with a non-empty queue, each expiry of the
\* 30-second timer sends a batch request for the queued records.
C6_TimerSendsBatch ==
    [][(last'.op = "timerFires" /\ ~isOnline /\ traceQueue # <<>>)
          => (last'.outcome = "sent" /\ last'.batch = traceQueue)]_vars

\* C7: a successful trace delivery, with the service reachable from then on, leads
\* to every queued record being delivered and the queue being empty.
C7_BacklogDrains ==
    (last.op = "createTrace" /\ last.outcome = "ok" /\ service = "reachable")
      ~> (\/ service # "reachable"
          \/ /\ traceQueue = <<>>
             /\ flushing = {}
             /\ (enqueued \ EvictedIds) \subseteq delivered)

\* a successful delivery that found a backlog and sent it
C7_Witness ==
    /\ last.op = "createTrace" /\ last.outcome = "ok"
    /\ service = "reachable"
    /\ flushing # {}

\* C8: a create-trace attempt that fails, by a thrown fetch or by a non-success
\* response, has its trace placed on the offline queue.
C8_FailedTraceQueued ==
    (last.op = "createTrace" /\ last.outcome \in {"status", "throw"})
      => last.trace.id \in enqueued

\* C10: a change that produces a trace lies inside some tracked range.
C10_OnlyTrackedRangesTrace ==
    (last.op = "handleCellChange" /\ last.outcome = "traced")
      => \E i \in 1..Len(modelConfig.tracked_ranges) :
            Covers(Parse(modelConfig.tracked_ranges[i].range), Parse(last.address))

\* C12: a change whose address matches no tracked range, or that arrives with no
\* model loaded, starts no create-trace request and queues nothing.
C12_NoMatchNoTrace ==
    [][(/\ last'.op = "handleCellChange"
        /\ \/ Falsy(modelConfig)
           \/ \A i \in 1..Len(modelConfig.tracked_ranges) :
                 ~Matches(last'.address, modelConfig.tracked_ranges[i]))
          => (creating' = creating /\ traceQueue' = traceQueue /\ enqueued' = enqueued)]_vars

\* a change that matched no tracked range, with a trace request of an earlier
\* change still outstanding
C12_Witness ==
    /\ last.op = "handleCellChange" /\ last.outcome = "ignored"
    /\ ~Falsy(modelConfig)
    /\ \A i \in 1..Len(modelConfig.tracked_ranges) :
          ~Matches(last.address, modelConfig.tracked_ranges[i])
    /\ creating # {}

\* C15: when 101 records have been enqueued into an empty queue with no flush in
\* between, the queue holds exactly the 100 most recently enqueued, in the
\* order they were enqueued; only the first-enqueued record is absent.
C15_KeepsNewestHundred ==
    (streak.clean /\ Len(streak.ids) = QUEUE_LIMIT + 1)
      => /\ Len(traceQueue) = QUEUE_LIMIT
         /\ \A i \in 1..QUEUE_LIMIT : traceQueue[i].id = streak.ids[i + 1]
         /\ streak.ids[1] \notin Ids(traceQueue)

\* the 101st record in a row has just been queued
C15_Witness ==
    /\ streak.clean /\ Len(streak.ids) = QUEUE_LIMIT + 1
    /\ last.op = "createTrace" /\ last.outcome = "throw"
    /\ last.trace.id = streak.ids[QUEUE_LIMIT + 1]

\* C16: after any failed flush attempt, whether the batch request threw or came
\* back with a non-success response, the online flag is false.
C16_FailedFlushOffline == FlushFailed(last) => ~isOnline

\* C17: after a flush whose batch delivery succeeded, none of the records sent
\* in that batch remain in the queue.
C17_DeliveredLeaveQueue ==
    (last.op = "flushResponse" /\ last.outcome = "ok")
      => \A i \in 1..Len(traceQueue) :
            \A j \in 1..Len(last.batch) : traceQueue[i] # last.batch[j]

\* a batch was delivered while a newer record waits in the queue
C17_Witness ==
    /\ last.op = "flushResponse" /\ last.outcome = "ok"
    /\ Len(last.batch) > 0
    /\ Len(traceQueue) > 0

\* C13: a load that failed (error status, or no response) is never reported to
\* the producer with the result that stands for "this model does not exist".
C13_FailureNotReportedAsMissing ==
    (last.op = "initializeMonitoring" /\ last.outcome # "ok")
      => last.trace # loadModelFromBackend("ok", Null)

\* C14: a create-trace call that has not completed within 10 seconds is treated
\* as failed: it is no longer awaited and its record is on the offline queue.
C14_OverdueTraceQueued ==
    \A t \in creating : t.id \in overdue => t.id \in enqueued

----------------------------------------------------------------------------
(* Properties of the matcher *)

\* C9: with tracked ranges [A = Sheet1!A1:A5, B = Sheet1!B1:B5], resolving
\* Sheet1!A3 returns the range named A and resolving Sheet1!C1 returns no match.
C9_ResolveExample ==
    (m_pc = "done" /\ ~Falsy(m_config) /\ m_config.tracked_ranges = <<RangeA, RangeB>>)
      => /\ m_address = Cell(TRUE, 1, 3) => m_result = RangeA
         /\ m_address = Cell(TRUE, 3, 1) => Falsy(m_result)

\* C11: when the changed address matches more than one tracked range, resolve
\* returns the one that appears earliest in the tracked_ranges list.
C11_FirstMatchWins ==
    (m_pc = "done" /\ ~Falsy(m_config))
      => LET list == m_config.tracked_ranges
         IN  \A i \in 1..Len(list) :
                (/\ Matches(m_address, list[i])
                 /\ \A k \in 1..(i - 1) : ~Matches(m_address, list[k]))
                  => m_result = list[i]

\* an address matched by two different tracked ranges of the list
C11_Witness ==
    /\ m_pc = "done" /\ ~Falsy(m_config)
    /\ \E i, j \in 1..Len(m_config.tracked_ranges) :
          /\ i < j
          /\ m_config.tracked_ranges[i] # m_config.tracked_ranges[j]
          /\ Matches(m_address, m_config.tracked_ranges[i])
          /\ Matches(m_address, m_config.tracked_ranges[j])
          /\ m_result = m_config.tracked_ranges[i]

----------------------------------------------------------------------------
(* Properties of the service *)

C18_CreateReturnsOne ==
    [][(/\ request'.op = "upsert-model"
        /\ request'.model_name # None
        /\ request'.model_id # None
        /\ workbook_model_db[Get(request'.model_id)] = Null)
          => LET id == Get(request'.model_id)
             IN  /\ reply'.status = "OK"
                 /\ reply'.body.model_id = id
                 /\ reply'.body.version = 1
                 /\ workbook_model_db'[id] = reply'.body]_vars

\* a model created by a request that carried version 9
C18_Witness ==
    /\ request.op = "upsert-model" /\ request.model_id # None
    /\ request.version = Some(9)
    /\ reply.status = "OK"
    /\ returned[Get(request.model_id)] = <<reply.body.version>>

C21_LoadReturnsUpserted ==
    [][(/\ reply.op = "upsert-model" /\ reply.status = "OK"
        /\ request'.op = "load-model"
        /\ request'.model_id = Some(reply.body.model_id))
          => /\ reply'.status = "OK"
             /\ reply'.body.model_name = reply.body.model_name
             /\ reply'.body.tracked_ranges = reply.body.tracked_ranges
             /\ reply'.body.version = reply.body.version]_vars

\* a load answered with a model that has been updated at least once
C21_Witness ==
    /\ request.op = "load-model"
    /\ reply.op = "load-model" /\ reply.status = "OK"
    /\ reply.body.version >= 2
    /\ reply.body.tracked_ranges # <<>>

\* C22: a create-trace call whose model_id has never been upserted fails with
\* NotFound and leaves the model store and the trace store as they were.
C22_UnknownModelRejected ==
    [][(/\ request'.op = "create-model-trace"
        /\ workbook_model_db[Get(request'.model_id)] = Null)
          => /\ reply'.status = "NotFound"
             /\ workbook_model_db' = workbook_model_db
             /\ workbook_trace' = workbook_trace]_vars

\* a trace for an unknown model was refused while the store holds traces of
\* another model
C22_Witness ==
    /\ request.op = "create-model-trace"
    /\ reply.status = "NotFound"
    /\ workbook_model_db[Get(request.model_id)] = Null
    /\ workbook_trace # <<>>

\* C24: a create-trace-batch call on an existing model stores exactly one trace
\* per entry of changes, in order, after the traces already stored, and every
\* trace it stores carries the batch's timestamp and username.
C24_BatchStoresEachChange ==
    [][(/\ request'.op = "create-model-trace-batch"
        /\ workbook_model_db[Get(request'.model_id)] # Null)
          => LET n == Len(workbook_trace)
                 changes == payload'.changes
             IN  /\ reply'.status = "OK"
                 /\ Len(workbook_trace') = n + Len(changes)
                 /\ SubSeq(workbook_trace', 1, n) = workbook_trace
                 /\ \A i \in 1..Len(changes) :
                       /\ workbook_trace'[n + i].model_id = Get(request'.model_id)
                       /\ workbook_trace'[n + i].tracked_range_name = changes[i]
                       /\ workbook_trace'[n + i].timestamp = payload'.timestamp
                       /\ workbook_trace'[n + i].username = payload'.username]_vars

\* a batch of two changes to the same tracked range was stored
C24_Witness ==
    /\ request.op = "create-model-trace-batch"
    /\ reply.status = "OK"
    /\ Len(payload.changes) = 2
    /\ payload.changes[1] = payload.changes[2]
    /\ Len(workbook_trace) = 2

\* C25: after an upsert-model on an existing model the stored name and
\* tracked_ranges are exactly the request's: no tracked range of the previous
\* version survives unless the request lists it.
C25_FullReplace ==
    [][(/\ request'.op = "upsert-model"
        /\ request'.model_name # None
        /\ request'.model_id # None
        /\ workbook_model_db[Get(request'.model_id)] # Null)
          => LET id == Get(request'.model_id)
             IN  /\ workbook_model_db'[id].model_name = Get(request'.model_name)
                 /\ workbook_model_db'[id].tracked_ranges = request'.tracked_ranges]_vars

\* an update that listed no tracked range, answered with an empty list
C25_Witness ==
    /\ request.op = "upsert-model" /\ request.model_id # None
    /\ reply.status = "OK"
    /\ Len(returned[Get(request.model_id)]) >= 2
    /\ request.tracked_ranges = <<>>
    /\ workbook_model_db[Get(request.model_id)].tracked_ranges = <<>>

\* C23: after every successful upsert issued by the producer, the cached model
\* version is the version the server returned for that upsert.
C23_CacheTakesServerVersion ==
    [][(last'.op = "updateModelAddRange" /\ last'.outcome = "ok")
          => /\ last'.trace.version \in
                  {returned[ProducerModelId][i] : i \in 1..Len(returned[ProducerModelId])}
             /\ modelConfig'.version = last'.trace.version]_vars

\* the response of an upsert is processed after the server has already handled
\* a later one: the cache holds the version that upsert returned
C23_Witness ==
    /\ last.op = "updateModelAddRange" /\ last.outcome = "ok"
    /\ modelConfig.version = last.trace.version
    /\ modelConfig.version < workbook_model_db[ProducerModelId].version

\* C27: once the add-tracked-range operations started so far have all returned,
\* the stored model's tracked_ranges contains every range whose operation
\* succeeded, also when one was started while another awaited its response.
C27_EveryAddedRangeStored ==
    (updating = {} /\ workbook_model_db[ProducerModelId] # Null)
      => LET stored == workbook_model_db[ProducerModelId].tracked_ranges
         IN  \A tr \in added : \E i \in 1..Len(stored) : stored[i] = tr

\* C26: no failure of load-model, create-trace or flush stops the producer of a
\* registered workbook: after the failure its worksheet-change handler is in
\* place, so later cell changes are processed.
C26_FailureLeavesMonitoring ==
    (/\ last.op \in {"initializeMonitoring", "createTrace", "flushResponse"}
     /\ last.outcome \in {"status", "throw"}
     /\ workbook_model_db[ProducerModelId] # Null)
      => monitoringActive

\* C29: across any number of initializeMonitoring runs, overlapping ones and the
\* re-runs after registration included, at most one worksheet-change handler
\* is ever registered, so a cell change is handled at most once.
C29_OneChangeHandler == handlers <= 1

\* startLiveMonitoring has been called by three runs, one of them still
\* pending when another finished
C29_Witness ==
    /\ starts >= 3
    /\ handlers = 1
    /\ loads >= 1


\* C28: a trace that reaches the store through the offline queue is stored
\* with the timestamp of its capture: the rows a delivered batch adds to the
\* store carry, entry by entry, the timestamps of the queued records.
C28_QueuedKeepsCaptureTime ==
    [][(last'.op = "flushResponse" /\ last'.outcome = "ok" /\ workbook_trace' # workbook_trace)
        => /\ Len(workbook_trace') = Len(workbook_trace) + Len(last'.batch)
           /\ \A i \in 1..Len(last'.batch) :
                workbook_trace'[Len(workbook_trace) + i].timestamp = last'.batch[i].timestamp]_vars


\* C30: in the taskpane tracker, after any sequence of register, update and
\* load operations, a change of one cell inside one tracked range of the held
\* model produces exactly one create-trace call for that range.
C30_OneTracePerChange ==
    (traced # Null /\ ~Falsy(traced.model)) =>
        LET ranges == traced.model.tracked_ranges
        IN  \A i \in 1..Len(ranges) :
              (/\ SheetNameOf(ranges[i].range) = traced.sheet
               /\ Intersects(Parse(RangeAddressOf(ranges[i].range)), traced.cell)
               /\ \A j \in 1..Len(ranges) : ranges[j].name = ranges[i].name => j = i)
              => Cardinality({c \in traced.calls :
                                c.tracked_range_name = ranges[i].name}) = 1

====
